---- MODULE Spec2Model ----
(***************************************************************************)
(* Six Rivers Africa - GEE export processor                                *)
(* (src/python/pipeline/gee_export_processor.py).                          *)
(*                                                                         *)
(* The monthly pipeline load -> validate -> compute deviations -> detect   *)
(* alerts -> persist, and the command-line entry point that drives it.     *)
(*                                                                         *)
(* Numbers.  A table cell is an integer or NaN.  A mean is the exact       *)
(* rational sum/count; "current" and "baseline" of a deviation record are  *)
(* kept in units of 1e-4 (round(x, 4)), "deviation_pct", "null_pct" and    *)
(* the thresholds in units of 0.1 (round(x, 1)).  Rounding is decimal      *)
(* round-half-even, as Python's round() on an exactly representable value. *)
(* Column names are atoms; the substring tests of the code are the sets    *)
(* of names that contain the substring.                                    *)
(***************************************************************************)
EXTENDS Integers, Sequences, FiniteSets, TLC

VARIABLES
    files,        \* gee/exports: category -> the period's CSV file
    thresholds,   \* ZONES_CONFIG["alert_thresholds"], read at import
    legacyConcat, \* pandas build: concat ignores all-NA columns' dtype
    outfile,      \* data/monthly/monthly_dataset_<period>.json
    pc,           \* position of the running process
    run,          \* number of command-line invocations started (any tool)
    clock,        \* datetime.now(): strictly increasing reads
    datasets,     \* compile_monthly_dataset: local "datasets"
    quality,      \* local "quality"
    deviations,   \* local "deviations" (a DataFrame)
    alerts,       \* local "alerts"
    result,       \* what compile_monthly_dataset returned (or raised)
    exitCode,     \* the process's exit status
    stdout,       \* the line printed by the entry point
    stages,       \* stages executed by the current run, in order
    outBefore,    \* outfile as it was when the current run started
    prevDoc,      \* the document returned by the previous successful run
    reports,      \* reports/monthly: report file of the period -> content
    lastReport,   \* outcome of the report command, if the last command was one
    register,     \* shapefile_manager.SHAPEFILE_REGISTER of the session
    registerBefore, \* the register as it was before the last call
    lastUpdate,   \* what the last update_shapefile_status call returned
    updates       \* number of update_shapefile_status calls made

vars == <<files, thresholds, legacyConcat, outfile, pc, run, clock, datasets,
          quality, deviations, alerts, result, exitCode, stdout, stages,
          outBefore, prevDoc, reports, lastReport, register,
          registerBefore, lastUpdate, updates>>

reportVars == <<reports, lastReport>>

registerVars == <<register, registerBefore, lastUpdate, updates>>

----------------------------------------------------------------------------
(* Values *)

\* np.nan: the missing float
NaN == -999999
\* Python's None
None == -999998
\* None in a field that otherwise holds a string
NoneStr == "None"
\* a missing string cell (read_csv gives NaN for an empty cell)
NA == "<NA>"

IsNum(v) == v # NaN /\ v # None

Abs(n) == IF n < 0 THEN -n ELSE n

\* round(n/d, 0) for d > 0, ties to even
RoundDiv(n, d) ==
    LET q == n \div d
        r == n % d
    IN  IF 2 * r < d THEN q
        ELSE IF 2 * r > d THEN q + 1
        ELSE IF q % 2 = 0 THEN q ELSE q + 1

RECURSIVE SumSeq(_)
SumSeq(s) == IF s = <<>> THEN 0 ELSE Head(s) + SumSeq(Tail(s))

\* the distinct elements of s in order of first appearance (Series.unique())
RECURSIVE Unique(_)
Unique(s) ==
    IF s = <<>> THEN <<>>
    ELSE LET h == Head(s)
         IN  <<h>> \o Unique(SelectSeq(Tail(s), LAMBDA e : e # h))

Range(s) == {s[i] : i \in DOMAIN s}

\* every listing of a finite set: the iteration orders a Python set of
\* strings can have (string hashes are randomised per process)
OrdersOf(S) ==
    {o \in [1..Cardinality(S) -> S] : \A i, j \in 1..Cardinality(S) : o[i] = o[j] => i = j}

----------------------------------------------------------------------------
(* Configuration *)

ZONE_NAMES == {"Usangu GR", "Ihefu Core", "Nyerere NP"}

\* load_monthly_exports: the keys of "patterns", in dict order
Categories == <<"ndvi_evi", "fire", "water", "climate">>

required_cols == {"zone", "indicator", "year", "month"}

\* column names (measurement columns of the exports)
ContainsNDVI     == {"NDVI", "NDVI_water", "NDVI_mean", "NDVI_stdDev", "NDVI_EVI_mean", "rainfall_NDVI_LST"}
ContainsEVI      == {"EVI_mean", "NDVI_EVI_mean"}
ContainsStdDev   == {"NDVI_stdDev"}
ContainsRainfall == {"Rainfall_mm", "rainfall_chirps", "rainfall_NDVI_LST"}
ContainsLST      == {"LST_mean", "rainfall_NDVI_LST"}
ContainsCount    == {"fire_count"}
ContainsT21      == {"T21"}

\* row labels (the "indicator" column)
ContainsCurrent  == {"NDVI_current", "climate_current", "water_current", "fire_current"}
ContainsBaseline == {"NDVI_baseline", "climate_baseline", "water_baseline", "fire_baseline"}

----------------------------------------------------------------------------
(* A file is [present, columns, header, rows]: whether it is on disk, the  *)
(* required columns it has, its measurement columns in order, and its rows *)
(* [zone, indicator, vals] with vals aligned with header.                  *)

AbsentFile == [present |-> FALSE, columns |-> {}, header |-> <<>>, rows |-> <<>>]

Table(header, rows) ==
    [present |-> TRUE, columns |-> required_cols, header |-> header, rows |-> rows]

Raised == [raised |-> TRUE]

\* an exception in the place of a frame of records
RaisedFrame == <<Raised>>

\* load_gee_export: the DataFrame, or the ValueError for missing columns
load_gee_export(f) ==
    IF required_cols \ f.columns # {} THEN Raised
    ELSE [header |-> f.header, rows |-> f.rows]

\* load_monthly_exports: the dict of the files present, in pattern order;
\* the first load that raises ends the call with that exception
RECURSIVE LoadFrom(_, _, _)
LoadFrom(fs, i, acc) ==
    IF i > Len(Categories) THEN acc
    ELSE LET key == Categories[i]
         IN  IF ~fs[key].present THEN LoadFrom(fs, i + 1, acc)
             ELSE LET df == load_gee_export(fs[key])
                  IN  IF df = Raised THEN Raised
                      ELSE LoadFrom(fs, i + 1,
                               [k \in DOMAIN acc \cup {key} |->
                                   IF k = key THEN df ELSE acc[k]])

EmptyDict == [k \in {} |-> 0]

\* faulty variant: one missing export empties the whole dict
load_monthly_exports_AllOrNothing(fs) ==
    IF \E k \in Range(Categories) : ~fs[k].present THEN EmptyDict
    ELSE LoadFrom(fs, 1, EmptyDict)

load_monthly_exports(fs) == LoadFrom(fs, 1, EmptyDict)

\* the keys of a dict in insertion order
Keys(d) == SelectSeq(Categories, LAMBDA k : k \in DOMAIN d)

----------------------------------------------------------------------------
(* DATA QUALITY CHECKS *)

RECURSIVE CountNulls(_)
CountNulls(rows) ==
    IF rows = <<>> THEN 0
    ELSE LET r == Head(rows)
         IN  (IF r.zone = NA THEN 1 ELSE 0)
             + (IF r.indicator = NA THEN 1 ELSE 0)
             + Cardinality({i \in DOMAIN r.vals : r.vals[i] = NaN})
             + CountNulls(Tail(rows))

\* round(df.isnull().mean().mean() * 100, 1): the mean over the columns
\* (zone, indicator, year, month and the measurement columns) of each
\* column's null fraction; NaN for a table without rows
NullPct(df) ==
    LET cells == Len(df.rows) * (Cardinality(required_cols) + Len(df.header))
    IN  IF Len(df.rows) = 0 THEN NaN
        ELSE RoundDiv(1000 * CountNulls(df.rows), cells)

ZonesPresent(df) == Unique([i \in DOMAIN df.rows |-> df.rows[i].zone])

\* faulty variant: the expected zones are not verified
QualityCheck_NullOnly(key, df, ord) ==
    LET null_pct == NullPct(df)
        highNull == null_pct # NaN /\ null_pct > 300
        base     == [dataset |-> key, records |-> Len(df.rows),
                     null_pct |-> null_pct, zones_present |-> ZonesPresent(df),
                     status |-> IF highNull THEN "WARNING" ELSE "PASS"]
    IN  IF highNull
          THEN [f \in DOMAIN base \cup {"note"} |->
                   IF f = "note" THEN <<"High null rate", null_pct>> ELSE base[f]]
        ELSE base

\* faulty variant: a null percentage of exactly 30 is flagged
QualityCheck_Inclusive(key, df, ord) ==
    LET null_pct == NullPct(df)
        present  == ZonesPresent(df)
        missing  == ZONE_NAMES \ Range(present)
        highNull == null_pct # NaN /\ null_pct >= 300
        base     == [dataset |-> key, records |-> Len(df.rows),
                     null_pct |-> null_pct, zones_present |-> present,
                     status |-> IF highNull \/ missing # {} THEN "WARNING" ELSE "PASS"]
        listed   == SelectSeq(ord, LAMBDA z : z \in missing)
    IN  IF missing # {}
          THEN [f \in DOMAIN base \cup {"note"} |->
                   IF f = "note" THEN <<"Missing zones", listed>> ELSE base[f]]
        ELSE IF highNull
          THEN [f \in DOMAIN base \cup {"note"} |->
                   IF f = "note" THEN <<"High null rate", null_pct>> ELSE base[f]]
        ELSE base

\* one entry of quality["checks"]; ord is the iteration order of the
\* process's string sets, which the note's text shows
QualityCheck(key, df, ord) ==
    LET null_pct == NullPct(df)
        present  == ZonesPresent(df)
        missing  == ZONE_NAMES \ Range(present)
        highNull == null_pct # NaN /\ null_pct > 300
        base     == [dataset |-> key, records |-> Len(df.rows),
                     null_pct |-> null_pct, zones_present |-> present,
                     status |-> IF highNull \/ missing # {} THEN "WARNING" ELSE "PASS"]
        listed   == SelectSeq(ord, LAMBDA z : z \in missing)
    IN  IF missing # {}
          THEN [f \in DOMAIN base \cup {"note"} |->
                   IF f = "note" THEN <<"Missing zones", listed>> ELSE base[f]]
        ELSE IF highNull
          THEN [f \in DOMAIN base \cup {"note"} |->
                   IF f = "note" THEN <<"High null rate", null_pct>> ELSE base[f]]
        ELSE base

\* faulty variant: every check stamped with the time of the run
validate_data_quality_Stamped(ds, now, ord) ==
    LET keys   == Keys(ds)
        checks == [i \in DOMAIN keys |->
                     [dataset |-> keys[i], checked_at |-> now,
                      status |-> QualityCheck(keys[i], ds[keys[i]], ord).status]]
    IN  [timestamp |-> now,
         checks |-> checks,
         overall_status |->
            IF \E i \in DOMAIN checks : checks[i].status # "PASS"
            THEN "WARNING" ELSE "PASS"]

validate_data_quality(ds, now, ord) ==
    LET keys   == Keys(ds)
        checks == [i \in DOMAIN keys |-> QualityCheck(keys[i], ds[keys[i]], ord)]
    IN  [timestamp |-> now,
         checks |-> checks,
         overall_status |->
            IF \E i \in DOMAIN checks : checks[i].status # "PASS"
            THEN "WARNING" ELSE "PASS"]

----------------------------------------------------------------------------
(* INDICATOR COMPUTATION *)

\* Series.mean() of one measurement column over rows: NaN cells are
\* skipped; [s, n] is the rational s/n, n = 0 the NaN of an empty mean
ColMean(rows, c) ==
    LET cells == SelectSeq([i \in DOMAIN rows |-> rows[i].vals[c]], IsNum)
    IN  [s |-> SumSeq(cells), n |-> Len(cells)]

\* round(mean, 4), in units of 1e-4
Round4(m) == IF m.n = 0 THEN NaN ELSE RoundDiv(m.s * 10000, m.n)

\* faulty variant: the difference divided by the baseline, not by its
\* absolute value
DeviationPct_Signed(c, b) ==
    IF b.n # 0 /\ b.s # 0 /\ c.n # 0
    THEN RoundDiv(1000 * (c.s * b.n - b.s * c.n) * (IF b.s < 0 THEN -1 ELSE 1),
                  c.n * Abs(b.s))
    ELSE None

\* lines 156-159 and 166: ((c_val - b_val) / abs(b_val)) * 100 rounded to
\* one decimal (units of 0.1) when b_val is neither 0 nor NaN and the
\* quotient is not NaN; None otherwise
DeviationPct(c, b) ==
    IF b.n # 0 /\ b.s # 0 /\ c.n # 0
    THEN RoundDiv(1000 * (c.s * b.n - b.s * c.n), c.n * Abs(b.s))
    ELSE None

\* the records appended for one zone (empty when the zone is skipped); a
\* missing zone cell is NaN, which equals no cell, so both selections are
\* empty for it
ZoneResults(df, zone) ==
    LET z_current  == SelectSeq(df.rows, LAMBDA r :
                          r.indicator \in ContainsCurrent /\ r.zone = zone)
        z_baseline == SelectSeq(df.rows, LAMBDA r :
                          r.indicator \in ContainsBaseline /\ r.zone = zone)
    IN  IF z_current = <<>> \/ z_baseline = <<>> \/ zone = NA THEN <<>>
        ELSE [c \in DOMAIN df.header |->
                LET c_val == ColMean(z_current, c)
                    b_val == ColMean(z_baseline, c)
                IN  [zone |-> zone,
                     indicator |-> df.header[c],
                     current |-> Round4(c_val),
                     baseline |-> Round4(b_val),
                     deviation_pct |-> DeviationPct(c_val, b_val)]]

RECURSIVE Results(_, _)
Results(df, zones) ==
    IF zones = <<>> THEN <<>>
    ELSE ZoneResults(df, Head(zones)) \o Results(df, Tail(zones))

\* pd.DataFrame(results): a deviation_pct column that holds a float is a
\* float64 column, in which None is stored as NaN; a column of None only
\* stays an object column of None
DataFrame(results) ==
    IF \E i \in DOMAIN results : results[i].deviation_pct # None
    THEN [i \in DOMAIN results |->
            IF results[i].deviation_pct = None
            THEN [results[i] EXCEPT !.deviation_pct = NaN]
            ELSE results[i]]
    ELSE results

\* compute_deviations: the frame of deviation records, or the exception
\* of the boolean mask (str.contains gives NaN for a missing indicator
\* cell, and indexing with a mask that holds NaN raises ValueError)
compute_deviations(df) ==
    IF \E i \in DOMAIN df.rows : df.rows[i].indicator = NA THEN RaisedFrame
    ELSE DataFrame(Results(df, ZonesPresent(df)))

IsObjectColumn(frame) ==
    frame # <<>> /\ \A i \in DOMAIN frame : frame[i].deviation_pct = None

IsFloatColumn(frame) ==
    frame # <<>> /\ ~IsObjectColumn(frame)

\* pd.concat([a, b]): the rows of a, then of b.  When one frame's
\* deviation_pct is all None (object) and the other's is float64, a
\* pandas that ignores all-NA columns' dtype (legacy) gives a float64
\* column, None stored as NaN; otherwise an object column, None kept
Concat(a, b, legacy) ==
    LET joined == a \o b
    IN  IF legacy /\ ((IsObjectColumn(a) /\ IsFloatColumn(b))
                      \/ (IsFloatColumn(a) /\ IsObjectColumn(b)))
        THEN [i \in DOMAIN joined |->
                IF joined[i].deviation_pct = None
                THEN [joined[i] EXCEPT !.deviation_pct = NaN]
                ELSE joined[i]]
        ELSE joined

----------------------------------------------------------------------------
(* ALERT DETECTION *)

\* a float comparison: False when the left side is NaN
LeqF(x, y) == x # NaN /\ x <= y
GtF(x, y) == x # NaN /\ x > y

\* faulty variant: the thresholds compared with < instead of <=
BaseSeverity_Strict(dev, th) ==
    IF dev # NaN /\ dev < th.ndvi_evi_high THEN "HIGH"
    ELSE IF dev # NaN /\ dev < th.ndvi_evi_moderate THEN "MODERATE"
    ELSE ""

\* lines 195-200: the base severity of an NDVI/EVI deviation, "" for none
BaseSeverity(dev, th) ==
    IF LeqF(dev, th.ndvi_evi_high) THEN "HIGH"
    ELSE IF LeqF(dev, th.ndvi_evi_moderate) THEN "MODERATE"
    ELSE ""

\* faulty variant: the zone compared with its key instead of its name
Escalate_ByKey(zone, severity) ==
    IF zone = "zone_1_ihefu" /\ severity = "MODERATE"
    THEN <<"HIGH", "Escalated: MODERATE in Ihefu Core -> HIGH">>
    ELSE <<severity, NoneStr>>

\* lines 202-207: the Ihefu Core escalation rule, <<severity, escalation>>
Escalate(zone, severity) ==
    IF zone = "Ihefu Core" /\ severity = "MODERATE"
    THEN <<"HIGH", "Escalated: MODERATE in Ihefu Core -> HIGH">>
    ELSE <<severity, NoneStr>>

\* faulty variant: one alert for each label the indicator name matches
NdviEviAlerts_PerLabel(row, th) ==
    LET indicator == row.indicator
        is_ndvi == indicator \in ContainsNDVI /\ indicator \notin ContainsStdDev
        is_evi  == indicator \in ContainsEVI /\ indicator \notin ContainsStdDev
        dev     == row.deviation_pct
        sev     == BaseSeverity(dev, th)
        esc     == Escalate(row.zone, sev)
        alert(label) == [zone |-> row.zone, indicator |-> label, severity |-> esc[1],
                         deviation_pct |-> dev, current |-> row.current,
                         baseline |-> row.baseline, escalation |-> esc[2]]
    IN  IF dev # None /\ sev # ""
        THEN (IF is_ndvi THEN <<alert("NDVI")>> ELSE <<>>)
             \o (IF is_evi THEN <<alert("EVI")>> ELSE <<>>)
        ELSE <<>>

\* lines 183-217: the alerts of one deviation row in the NDVI/EVI loop
NdviEviAlerts(row, th) ==
    LET indicator == row.indicator
        is_ndvi == indicator \in ContainsNDVI /\ indicator \notin ContainsStdDev
        is_evi  == indicator \in ContainsEVI /\ indicator \notin ContainsStdDev
        dev     == row.deviation_pct
        sev     == BaseSeverity(dev, th)
        esc     == Escalate(row.zone, sev)
    IN  IF (is_ndvi \/ is_evi) /\ dev # None /\ sev # ""
        THEN << [zone |-> row.zone,
                 indicator |-> IF is_ndvi THEN "NDVI" ELSE "EVI",
                 severity |-> esc[1],
                 deviation_pct |-> dev,
                 current |-> row.current,
                 baseline |-> row.baseline,
                 escalation |-> esc[2]] >>
        ELSE <<>>

\* lines 222-232: the alerts of one row of the fire table, one for each
\* column named "...count..." or "...T21..." that holds a positive value
RECURSIVE FireRowAlerts(_, _, _)
FireRowAlerts(header, row, c) ==
    IF c > Len(header) THEN <<>>
    ELSE (IF (header[c] \in ContainsCount \/ header[c] \in ContainsT21)
             /\ row.vals[c] # NaN /\ row.vals[c] > 0
          THEN << [zone |-> row.zone,
                   indicator |-> "Active Fire",
                   severity |-> "HIGH",
                   detail |-> <<"Fire detections", row.vals[c]>>,
                   escalation |-> NoneStr] >>
          ELSE <<>>)
         \o FireRowAlerts(header, row, c + 1)

\* faulty variant: a deviation of exactly -40 raises no alert
RainfallAlerts_Strict(row) ==
    IF row.indicator \in ContainsRainfall /\ row.deviation_pct # None
       /\ row.deviation_pct # NaN /\ row.deviation_pct < -400
    THEN << [zone |-> row.zone,
             indicator |-> "Rainfall Deficit",
             severity |-> "HIGH",
             deviation_pct |-> row.deviation_pct,
             detail |-> "Drought watch - >40% deficit vs 30-yr mean"] >>
    ELSE <<>>

\* lines 236-244: the rainfall rule on one deviation row
RainfallAlerts(row) ==
    IF row.indicator \in ContainsRainfall /\ row.deviation_pct # None
       /\ LeqF(row.deviation_pct, -400)
    THEN << [zone |-> row.zone,
             indicator |-> "Rainfall Deficit",
             severity |-> "HIGH",
             deviation_pct |-> row.deviation_pct,
             detail |-> "Drought watch - >40% deficit vs 30-yr mean"] >>
    ELSE <<>>

\* faulty variant: an anomaly of exactly 3.0 raises an alert
LstAlerts_Inclusive(row) ==
    IF row.indicator \in ContainsLST /\ row.current # None /\ row.baseline # None
       /\ row.current # NaN /\ row.baseline # NaN
       /\ row.current - row.baseline >= 30000
    THEN << [zone |-> row.zone,
             indicator |-> "Land Surface Temperature",
             severity |-> "MODERATE",
             detail |-> <<"LST anomaly", RoundDiv(row.current - row.baseline, 1000)>>] >>
    ELSE <<>>

\* lines 246-254: the land-surface-temperature rule on one deviation row;
\* current and baseline are floats in units of 1e-4, the detail shows the
\* anomaly with one decimal
LstAlerts(row) ==
    IF row.indicator \in ContainsLST /\ row.current # None /\ row.baseline # None
       /\ row.current # NaN /\ row.baseline # NaN
       /\ GtF(row.current - row.baseline, 30000)
    THEN << [zone |-> row.zone,
             indicator |-> "Land Surface Temperature",
             severity |-> "MODERATE",
             detail |-> <<"LST anomaly", RoundDiv(row.current - row.baseline, 1000)>>] >>
    ELSE <<>>

\* lines 183-217: the first loop over the deviation rows
RECURSIVE VegLoop(_, _)
VegLoop(devs, th) ==
    IF devs = <<>> THEN <<>>
    ELSE NdviEviAlerts(Head(devs), th) \o VegLoop(Tail(devs), th)

\* lines 220-232: the loop over the rows of the fire table
RECURSIVE FireLoop(_, _)
FireLoop(header, rows) ==
    IF rows = <<>> THEN <<>>
    ELSE FireRowAlerts(header, Head(rows), 1) \o FireLoop(header, Tail(rows))

\* lines 235-254: the second loop over the deviation rows, the rainfall
\* rule before the LST rule for each row
RECURSIVE ClimateLoop(_)
ClimateLoop(devs) ==
    IF devs = <<>> THEN <<>>
    ELSE RainfallAlerts(Head(devs)) \o LstAlerts(Head(devs)) \o ClimateLoop(Tail(devs))

\* faulty variant: the list sorted HIGH first before it is returned
detect_alerts_HighFirst(ds, devs, th) ==
    LET found == VegLoop(devs, th)
                 \o (IF "fire" \in DOMAIN ds
                     THEN FireLoop(ds["fire"].header, ds["fire"].rows) ELSE <<>>)
                 \o ClimateLoop(devs)
    IN  SelectSeq(found, LAMBDA a : a.severity = "HIGH")
        \o SelectSeq(found, LAMBDA a : a.severity # "HIGH")

\* detect_alerts: the NDVI/EVI alerts, then the fire alerts, then the
\* climate alerts
detect_alerts(ds, devs, th) ==
    VegLoop(devs, th)
    \o (IF "fire" \in DOMAIN ds
        THEN FireLoop(ds["fire"].header, ds["fire"].rows) ELSE <<>>)
    \o ClimateLoop(devs)

----------------------------------------------------------------------------
(* STRUCTURED OUTPUT *)

\* lines 290-303: the document of a run
Output(ds, q, devs, als, now) ==
    [metadata |-> [report_period |-> "period",
                   generated_at |-> now,
                   prepared_by |-> "Ernest Moyo / 7Square Inc.",
                   organisation |-> "Six Rivers Africa",
                   boundary_status |-> "PLACEHOLDER",
                   crs_analysis |-> "EPSG:32736"],
     data_quality |-> q,
     deviations |-> devs,
     alerts |-> als,
     raw_datasets |-> ds]

----------------------------------------------------------------------------
(* Bounds and inputs *)

\* rows of one export file
MaxRows == 2
\* command-line invocations for the period
MaxRuns == 2

\* update_shapefile_status calls of one session
MaxUpdates == 2

\* the sequences over S of length at most n
RECURSIVE SeqsUpTo(_, _)
SeqsUpTo(S, n) ==
    IF n = 0 THEN {<<>>}
    ELSE LET shorter == SeqsUpTo(S, n - 1)
         IN  shorter \cup {Append(t, e) : t \in {u \in shorter : Len(u) = n - 1}, e \in S}

\* alert_thresholds of config/zones.json, in units of 0.1 percent
DefaultThresholds == [ndvi_evi_high |-> -250, ndvi_evi_moderate |-> -150]
OtherThresholds   == [ndvi_evi_high |-> -300, ndvi_evi_moderate |-> -200]

VegHeader == <<"NDVI_mean", "EVI_mean">>
VegRows ==
    [zone : {"Ihefu Core", "Usangu GR"}, indicator : {"NDVI_current"},
     vals : {<<75, 85>>, <<70, 80>>, <<82, NaN>>}]
    \cup [zone : {"Ihefu Core", "Usangu GR"}, indicator : {"NDVI_baseline"},
          vals : {<<100, 100>>, <<100, 0>>, <<NaN, 100>>, <<80, 100>>}]
    \cup {[zone |-> "Usangu GR", indicator |-> NA, vals |-> <<75, 82>>]}

StdHeader == <<"NDVI_stdDev", "EVI_mean">>
StdRows ==
    [zone : {"Ihefu Core"}, indicator : {"NDVI_current"}, vals : {<<75, 82>>, <<70, 100>>}]
    \cup [zone : {"Ihefu Core"}, indicator : {"NDVI_baseline"}, vals : {<<100, 100>>}]

ClimateHeader == <<"Rainfall_mm", "LST_mean">>
ClimateRows ==
    [zone : {"Ihefu Core", "Nyerere NP"}, indicator : {"climate_current"},
     vals : {<<60, 33>>, <<55, 34>>, <<100, NaN>>}]
    \cup [zone : {"Ihefu Core", "Nyerere NP"}, indicator : {"climate_baseline"},
          vals : {<<100, 30>>, <<0, 30>>}]
    \cup {[zone |-> NA, indicator |-> NA, vals |-> <<NaN, NaN>>]}

FireHeader == <<"fire_count", "T21">>
FireRows ==
    [zone : {"Nyerere NP", "Ihefu Core"}, indicator : {"fire"},
     vals : {<<3, 0>>, <<0, 0>>, <<NaN, 330>>, <<2, 310>>}]

\* one fixed table for each category
FixedTable ==
    [k \in Range(Categories) |->
        CASE k = "ndvi_evi" ->
               Table(VegHeader,
                     << [zone |-> "Ihefu Core", indicator |-> "NDVI_current", vals |-> <<82, 82>>],
                        [zone |-> "Ihefu Core", indicator |-> "NDVI_baseline", vals |-> <<0, 0>>] >>)
          [] k = "fire" ->
               Table(FireHeader,
                     << [zone |-> "Nyerere NP", indicator |-> "fire", vals |-> <<3, 0>>] >>)
          [] k = "water" ->
               Table(<<"NDWI_mean">>,
                     << [zone |-> "Usangu GR", indicator |-> "water_current", vals |-> <<50>>] >>)
          [] k = "climate" ->
               Table(<<"rainfall_chirps", "LST_mean">>,
                     << [zone |-> "Ihefu Core", indicator |-> "climate_current", vals |-> <<55, 34>>],
                        [zone |-> "Ihefu Core", indicator |-> "climate_baseline", vals |-> <<100, 30>>] >>)]

\* a second fixed table for each category
AltTable ==
    [k \in Range(Categories) |->
        CASE k = "ndvi_evi" ->
               Table(<<"NDVI", "EVI_mean">>,
                     << [zone |-> "Usangu GR", indicator |-> "NDVI_current", vals |-> <<82, NaN>>],
                        [zone |-> "Usangu GR", indicator |-> "NDVI_baseline", vals |-> <<100, 100>>] >>)
          [] k = "fire" ->
               Table(FireHeader,
                     << [zone |-> "Ihefu Core", indicator |-> "fire", vals |-> <<2, 310>>] >>)
          [] k = "water" ->
               Table(<<"NDWI_mean">>,
                     << [zone |-> "Usangu GR", indicator |-> "water_current", vals |-> <<50>>],
                        [zone |-> "Ihefu Core", indicator |-> "water_current", vals |-> <<40>>],
                        [zone |-> "Nyerere NP", indicator |-> "water_current", vals |-> <<NaN>>] >>)
          [] k = "climate" ->
               Table(ClimateHeader,
                     << [zone |-> "Nyerere NP", indicator |-> "climate_current", vals |-> <<55, NaN>>],
                        [zone |-> "Nyerere NP", indicator |-> "climate_baseline", vals |-> <<0, NaN>>] >>)]

\* a single NDVI column with means of either sign (cells in hundredths;
\* deviation_pct does not depend on the unit)
SignedHeader == <<"NDVI_mean">>
SignedRows ==
    [zone : {"Usangu GR"}, indicator : {"NDVI_current"}, vals : {<<42>>, <<-42>>}]
    \cup [zone : {"Usangu GR"}, indicator : {"NDVI_baseline"}, vals : {<<60>>, <<-60>>, <<-30>>}]

\* columns whose names fall under several rule families
CrossHeader == <<"NDVI_EVI_mean", "rainfall_NDVI_LST">>
CrossRows ==
    [zone : {"Usangu GR"}, indicator : {"NDVI_current"}, vals : {<<50, 50>>, <<80, 34>>}]
    \cup [zone : {"Usangu GR"}, indicator : {"NDVI_baseline"}, vals : {<<100, 100>>, <<100, 30>>}]

\* band columns of a wide export
Bands ==
    << "B1", "B2", "B3", "B4", "B5", "B6", "B7", "B8", "B9",
       "B10", "B11", "B12", "B13", "B14", "B15", "B16", "B17", "B18",
       "B19", "B20", "B21", "B22", "B23", "B24", "B25", "B26", "B27" >>

AllZones == <<"Usangu GR", "Ihefu Core", "Nyerere NP">>
TwoZones == <<"Usangu GR", "Ihefu Core">>

\* a table of current-period rows, one per zone of zs, with c band columns
\* of which the first n cells (row by row) are empty
BandTable(k, zs, c, n) ==
    Table(SubSeq(Bands, 1, c),
          [z \in DOMAIN zs |->
              [zone |-> zs[z], indicator |-> k \o "_current",
               vals |-> [i \in 1..c |-> IF (z - 1) * c + i <= n THEN NaN ELSE 1]]])

\* (zones, band columns, empty cells) of the band tables
BandCases ==
    { <<AllZones, 6, 0>>, <<AllZones, 6, 9>>, <<AllZones, 6, 10>>,
      <<AllZones, 27, 27>>, <<AllZones, 27, 28>>,
      <<TwoZones, 6, 6>>, <<TwoZones, 6, 7>> }

\* water and fire exports that carry a current and a baseline row, beside
\* an ndvi_evi export with a 30% and a 20% decline
PairedTable ==
    [k \in {"ndvi_evi", "water", "fire"} |->
        CASE k = "ndvi_evi" ->
               Table(VegHeader,
                     << [zone |-> "Usangu GR", indicator |-> "NDVI_current", vals |-> <<70, 80>>],
                        [zone |-> "Usangu GR", indicator |-> "NDVI_baseline", vals |-> <<100, 100>>] >>)
          [] k = "water" ->
               Table(<<"NDWI_mean", "NDVI_water">>,
                     << [zone |-> "Usangu GR", indicator |-> "water_current", vals |-> <<30, 40>>],
                        [zone |-> "Usangu GR", indicator |-> "water_baseline", vals |-> <<60, 100>>] >>)
          [] k = "fire" ->
               Table(FireHeader,
                     << [zone |-> "Ihefu Core", indicator |-> "fire_current", vals |-> <<3, 0>>],
                        [zone |-> "Ihefu Core", indicator |-> "fire_baseline", vals |-> <<0, 0>>] >>)]

\* a file on disk that lacks the "indicator" column
BadFile(k) == [FixedTable[k] EXCEPT !.columns = required_cols \ {"indicator"}]

FileOf(k, kind) ==
    CASE kind = "absent" -> AbsentFile
      [] kind = "bad" -> BadFile(k)
      [] kind = "ok" -> FixedTable[k]
      [] kind = "alt" -> AltTable[k]

NoFiles == [k \in Range(Categories) |-> AbsentFile]

Only(k, header, rows) == [NoFiles EXCEPT ![k] = Table(header, rows)]

Unset == [unset |-> TRUE]
NoDoc == [kind |-> "none"]
Doc(d) == [kind |-> "doc", doc |-> d]
Exception == [kind |-> "raised"]

\* a document left by an earlier month's processing of the same period
StaleDoc ==
    Output(EmptyDict, [timestamp |-> 0, checks |-> <<>>, overall_status |-> "PASS"],
           <<>>, <<>>, 0)

----------------------------------------------------------------------------
(* Reports (src/python/analysis) *)

ReportFiles == {"full", "donor", "alert", "government", "html"}

\* reports/monthly holds no report of the period
NoReports == [f \in ReportFiles |-> NoDoc]

Reverse(q) == [i \in 1..Len(q) |-> q[Len(q) + 1 - i]]

\* faulty variant: HIGH first, the alerts of a class in reverse order
SortHighFirst_Reversed(als) ==
    Reverse(SelectSeq(als, LAMBDA a : a.severity # "HIGH")
            \o SelectSeq(als, LAMBDA a : a.severity = "HIGH"))

\* sorted(alerts, key=lambda a: (0 if a.get("severity") == "HIGH" else 1)):
\* Python's sort is stable, so each key class keeps the order of the input
SortHighFirst(als) ==
    SelectSeq(als, LAMBDA a : a.severity = "HIGH")
    \o SelectSeq(als, LAMBDA a : a.severity # "HIGH")

\* the detail column of an alert row: the deviation when the alert has
\* one, else the alert's detail, else the empty text
RowDetail(a) ==
    IF "deviation_pct" \in DOMAIN a /\ a.deviation_pct # None
    THEN <<"deviation", a.deviation_pct>>
    ELSE IF "detail" \in DOMAIN a THEN a.detail ELSE <<"", 0>>

AlertRow(a) ==
    [zone |-> a.zone, indicator |-> a.indicator, severity |-> a.severity,
     detail |-> RowDetail(a)]

\* report_generator.format_alert_table: the rows of the text alert table,
\* top to bottom ("No active alerts." is the table without rows)
format_alert_table(data) ==
    LET sorted == SortHighFirst(data.alerts)
    IN  [i \in DOMAIN sorted |-> AlertRow(sorted[i])]

\* html_report_generator.create_alert_summary_chart: the bars of the
\* chart in the order given to plotly, and the y axis setting
create_alert_summary_chart(data) ==
    LET sorted == SortHighFirst(data.alerts)
    IN  [y |-> [i \in DOMAIN sorted |->
                  [label |-> <<sorted[i].indicator, sorted[i].zone>>,
                   text |-> sorted[i].severity]],
         autorange |-> "reversed"]

\* a horizontal bar chart draws its first category at the bottom unless
\* the y axis is reversed
TopToBottom(chart) ==
    IF chart.autorange = "reversed" THEN chart.y ELSE Reverse(chart.y)

\* html_report_generator.generate_html_report, lines 483-498: the rows of
\* the HTML alert table
html_alert_rows(data) ==
    LET sorted == SortHighFirst(data.alerts)
    IN  [i \in DOMAIN sorted |-> AlertRow(sorted[i])]

\* report_generator.format_executive_summary: the number of HIGH alerts
\* and the landscape status, which is read from the deviations whose
\* indicator is exactly "NDVI" and whose deviation is below -15
format_executive_summary(data) ==
    [high_alerts |-> Len(SelectSeq(data.alerts, LAMBDA a : a.severity = "HIGH")),
     landscape_status |->
        IF \E i \in DOMAIN data.deviations :
              /\ data.deviations[i].indicator = "NDVI"
              /\ IsNum(data.deviations[i].deviation_pct)
              /\ data.deviations[i].deviation_pct < -150
        THEN "showing vegetation stress" ELSE "stable"]

\* format_recommendations: one block per HIGH alert, in document order
format_recommendations(data) ==
    LET high == SelectSeq(data.alerts, LAMBDA a : a.severity = "HIGH")
    IN  [i \in DOMAIN high |-> <<high[i].indicator, high[i].zone>>]

generate_full_report(data) ==
    [period |-> data.metadata.report_period,
     disclaimer |-> data.metadata.boundary_status = "PLACEHOLDER",
     summary |-> format_executive_summary(data),
     alert_table |-> format_alert_table(data),
     recommendations |-> format_recommendations(data),
     quality |-> data.data_quality.overall_status]

generate_donor_brief(data) ==
    [period |-> data.metadata.report_period,
     alerts_total |-> Len(data.alerts),
     summary |-> format_executive_summary(data)]

generate_alert_only(data) ==
    [period |-> data.metadata.report_period,
     alert_table |-> format_alert_table(data),
     recommendations |-> format_recommendations(data)]

generate_html_report(data) ==
    [period |-> data.metadata.report_period,
     alert_chart |-> create_alert_summary_chart(data),
     alert_rows |-> html_alert_rows(data)]

\* the modes --mode accepts (argparse choices) and the keys of "generators"
ModeChoices == {"full", "donor", "alert", "government"}
GeneratorKeys == {"full", "donor", "alert"}

----------------------------------------------------------------------------
(* Shapefile register (src/python/utils/shapefile_manager.py) *)

RegisterNames ==
    <<"usangu_game_reserve", "ihefu_swamp_core", "nyerere_np_boundary",
      "great_ruaha_river", "rufiji_river", "six_rivers_study_zones">>

\* an entry of the register: the fields update_shapefile_status can set,
\* and the filename as one of the fields it never touches; a missing
\* area_km2_verified key is None
Entry(filename, source, status) ==
    [filename |-> filename, source |-> source, status |-> status,
     date_verified |-> NoneStr, area_km2_verified |-> None]

SHAPEFILE_REGISTER ==
    [n \in Range(RegisterNames) |->
        CASE n = "usangu_game_reserve" ->
               Entry("usangu_game_reserve.shp", "WDPA 20021 / TAWA", "PLACEHOLDER")
          [] n = "ihefu_swamp_core" ->
               Entry("ihefu_swamp_core.shp", "Wetlands International / Ramsar", "PLACEHOLDER")
          [] n = "nyerere_np_boundary" ->
               Entry("nyerere_np_boundary.shp", "Protected Planet (WDPA) IUCN Cat. II", "PLACEHOLDER")
          [] n = "great_ruaha_river" ->
               Entry("great_ruaha_river.shp", "HydroSHEDS / GRDC", "PLACEHOLDER")
          [] n = "rufiji_river" ->
               Entry("rufiji_river.shp", "HydroSHEDS / GRDC", "PLACEHOLDER")
          [] n = "six_rivers_study_zones" ->
               Entry("six_rivers_study_zones.shp",
                     "Composite - both operational zones merged", "PENDING")]

\* get_register_status: the summary of the register; status_counts is the
\* dict of the statuses that occur, pending_sra_input keeps dict order
get_register_status(reg) ==
    LET occurring == {reg[n].status : n \in DOMAIN reg}
    IN  [total_shapefiles |-> Cardinality(DOMAIN reg),
         status_counts |->
            [st \in occurring |-> Cardinality({n \in DOMAIN reg : reg[n].status = st})],
         all_verified |-> \A n \in DOMAIN reg : reg[n].status = "AUTHORITATIVE",
         pending_sra_input |->
            SelectSeq(RegisterNames, LAMBDA n :
                n \in DOMAIN reg /\ reg[n].status \in {"PLACEHOLDER", "PENDING"})]

\* faulty variant: an unknown name is added to the register
update_shapefile_status_Upsert(reg, name, new_status, source, verified_date, area_km2) ==
    [n \in DOMAIN reg \cup {name} |->
        IF n = name
        THEN [filename |-> name,
              source |-> IF source # NoneStr /\ source # "" THEN source
                         ELSE IF n \in DOMAIN reg THEN reg[n].source ELSE NoneStr,
              status |-> new_status,
              date_verified |-> verified_date,
              area_km2_verified |-> area_km2]
        ELSE reg[n]]

\* faulty variant: source, date and area are overwritten by the arguments
\* also when they are not supplied
update_shapefile_status_Overwrite(reg, name, new_status, source, verified_date, area_km2) ==
    IF name \notin DOMAIN reg THEN Raised
    ELSE [reg EXCEPT
            ![name] = [@ EXCEPT
                !.status = new_status,
                !.source = source,
                !.date_verified = verified_date,
                !.area_km2_verified = area_km2]]

\* update_shapefile_status on a copy of the register: the ValueError for
\* an unknown name, else the register with the entry updated; source,
\* verified_date and area_km2 are applied when truthy
update_shapefile_status(reg, name, new_status, source, verified_date, area_km2) ==
    IF name \notin DOMAIN reg THEN Raised
    ELSE [reg EXCEPT
            ![name] = [@ EXCEPT
                !.status = new_status,
                !.source = IF source # NoneStr /\ source # "" THEN source ELSE @,
                !.date_verified =
                    IF verified_date # NoneStr /\ verified_date # ""
                    THEN verified_date ELSE @,
                !.area_km2_verified =
                    IF area_km2 # None /\ area_km2 # 0 THEN area_km2 ELSE @]]

\* the register of a session in which the first five boundaries have been
\* set to AUTHORITATIVE with their date of verification
FiveVerified ==
    [n \in Range(RegisterNames) |->
        IF n = "six_rivers_study_zones" THEN SHAPEFILE_REGISTER[n]
        ELSE update_shapefile_status(SHAPEFILE_REGISTER, n, "AUTHORITATIVE",
                                     NoneStr, "2026-03-01", None)[n]]

\* arguments of the update_shapefile_status calls
UpdateNames == {"usangu_game_reserve", "six_rivers_study_zones", "unknown_boundary"}
UpdateStatuses == {"AUTHORITATIVE", "PENDING", "VERIFIED"}
UpdateArgs ==
    { [source |-> NoneStr, verified_date |-> NoneStr, area_km2 |-> None],
      [source |-> "TAWA 2026 survey", verified_date |-> NoneStr, area_km2 |-> None],
      [source |-> "TAWA 2026 survey", verified_date |-> "2026-03-01", area_km2 |-> 2610],
      [source |-> "", verified_date |-> NoneStr, area_km2 |-> 0] }

----------------------------------------------------------------------------
(* State machine *)

pipelineVars == <<files, thresholds, legacyConcat, outfile, pc, clock, datasets,
                  quality, deviations, alerts, result, exitCode, stdout, stages,
                  outBefore, prevDoc>>

Init ==
    /\ \/ /\ files \in {Only("ndvi_evi", VegHeader, t) : t \in SeqsUpTo(VegRows, MaxRows)}
          /\ thresholds \in {DefaultThresholds, OtherThresholds}
          /\ legacyConcat = FALSE
          /\ outfile = NoDoc
          /\ pc = "idle"
       \/ /\ files \in {Only("ndvi_evi", StdHeader, t) : t \in SeqsUpTo(StdRows, MaxRows)}
          /\ thresholds = DefaultThresholds
          /\ legacyConcat = FALSE
          /\ outfile = NoDoc
          /\ pc = "idle"
       \/ /\ files \in {Only("climate", ClimateHeader, t) : t \in SeqsUpTo(ClimateRows, MaxRows)}
          /\ thresholds = DefaultThresholds
          /\ legacyConcat = FALSE
          /\ outfile = NoDoc
          /\ pc = "idle"
       \/ /\ files \in {Only("fire", FireHeader, t) : t \in SeqsUpTo(FireRows, MaxRows)}
          /\ thresholds = DefaultThresholds
          /\ legacyConcat = FALSE
          /\ outfile = NoDoc
          /\ pc = "idle"
       \/ /\ files \in {[k \in Range(Categories) |-> FileOf(k, m[k])] :
                            m \in [Range(Categories) -> {"absent", "bad", "ok", "alt"}]}
          /\ thresholds = DefaultThresholds
          /\ legacyConcat \in BOOLEAN
          /\ outfile \in {NoDoc, Doc(StaleDoc)}
          /\ pc = "idle"
       \/ /\ files \in {[NoFiles EXCEPT
                              !["water"] = BandTable("water", w[1], w[2], w[3]),
                              !["fire"] = BandTable("fire", f[1], f[2], f[3])] :
                            w \in BandCases, f \in BandCases}
          /\ thresholds = DefaultThresholds
          /\ legacyConcat = FALSE
          /\ outfile = NoDoc
          /\ pc = "idle"
       \/ /\ files \in {Only("ndvi_evi", CrossHeader, t) : t \in SeqsUpTo(CrossRows, MaxRows)}
          /\ thresholds = DefaultThresholds
          /\ legacyConcat = FALSE
          /\ outfile = NoDoc
          /\ pc = "idle"
       \/ /\ files \in {Only("ndvi_evi", SignedHeader, t) : t \in SeqsUpTo(SignedRows, MaxRows)}
          /\ thresholds = DefaultThresholds
          /\ legacyConcat = FALSE
          /\ outfile = NoDoc
          /\ pc = "idle"
       \/ /\ files \in {[NoFiles EXCEPT !["water"] = PairedTable["water"],
                                           !["fire"] = PairedTable["fire"]],
                         [NoFiles EXCEPT !["ndvi_evi"] = PairedTable["ndvi_evi"],
                                           !["water"] = PairedTable["water"],
                                           !["fire"] = PairedTable["fire"]]}
          /\ thresholds = DefaultThresholds
          /\ legacyConcat = FALSE
          /\ outfile = NoDoc
          /\ pc = "idle"
       \/ /\ files = NoFiles
          /\ thresholds = DefaultThresholds
          /\ legacyConcat = FALSE
          /\ outfile = NoDoc
          /\ pc = "registry"
    /\ run = 0
    /\ clock = 1
    /\ datasets = Unset
    /\ quality = Unset
    /\ deviations = <<>>
    /\ alerts = <<>>
    /\ result = Unset
    /\ exitCode = None
    /\ stdout = <<>>
    /\ stages = <<>>
    /\ outBefore = NoDoc
    /\ prevDoc = NoDoc
    /\ reports = NoReports
    /\ lastReport = Unset
    /\ register \in (IF pc = "registry"
                      THEN {SHAPEFILE_REGISTER, FiveVerified} ELSE {SHAPEFILE_REGISTER})
    /\ registerBefore = register
    /\ lastUpdate = Unset
    /\ updates = 0

\* python gee_export_processor.py --year Y --month M: a new process, which
\* calls compile_monthly_dataset
Start ==
    /\ pc \in {"idle", "exited"}
    /\ run < MaxRuns
    /\ run' = run + 1
    /\ pc' = "load"
    /\ datasets' = Unset
    /\ quality' = Unset
    /\ deviations' = <<>>
    /\ alerts' = <<>>
    /\ result' = Unset
    /\ exitCode' = None
    /\ stdout' = <<>>
    /\ stages' = <<>>
    /\ outBefore' = outfile
    /\ prevDoc' = IF result # Unset /\ result.kind = "doc" THEN result ELSE prevDoc
    /\ lastReport' = Unset
    /\ UNCHANGED <<reports, registerVars>>
    /\ UNCHANGED <<files, thresholds, legacyConcat, outfile, clock>>

\* faulty variant: no early return when the dict of datasets is empty
Load_NoGuard ==
    /\ pc = "load"
    /\ stages' = Append(stages, "Load")
    /\ LET loaded == load_monthly_exports(files)
       IN  IF loaded = Raised
             THEN /\ result' = Exception
                  /\ pc' = "return"
                  /\ UNCHANGED datasets
           ELSE /\ datasets' = loaded
                /\ pc' = "validate"
                /\ UNCHANGED result
    /\ UNCHANGED <<reportVars, registerVars>>
    /\ UNCHANGED <<files, thresholds, legacyConcat, outfile, run, clock, quality,
                   deviations, alerts, exitCode, stdout, outBefore, prevDoc>>

\* lines 268-271: load_monthly_exports, and the return of None when no
\* category loaded; a ValueError of load_gee_export is not caught
Load ==
    /\ pc = "load"
    /\ stages' = Append(stages, "Load")
    /\ LET loaded == load_monthly_exports(files)
       IN  IF loaded = Raised
             THEN /\ result' = Exception
                  /\ pc' = "return"
                  /\ UNCHANGED datasets
           ELSE IF DOMAIN loaded = {}
             THEN /\ result' = NoDoc
                  /\ pc' = "return"
                  /\ datasets' = loaded
           ELSE /\ datasets' = loaded
                /\ pc' = "validate"
                /\ UNCHANGED result
    /\ UNCHANGED <<reportVars, registerVars>>
    /\ UNCHANGED <<files, thresholds, legacyConcat, outfile, run, clock, quality,
                   deviations, alerts, exitCode, stdout, outBefore, prevDoc>>

\* line 273: validate_data_quality; the timestamp reads the clock
Validate ==
    /\ pc = "validate"
    /\ stages' = Append(stages, "Validate")
    /\ \E ord \in OrdersOf(ZONE_NAMES) :
          quality' = validate_data_quality(datasets, clock, ord)
    /\ clock' = clock + 1
    /\ pc' = "compute"
    /\ UNCHANGED <<reportVars, registerVars>>
    /\ UNCHANGED <<files, thresholds, legacyConcat, outfile, run, datasets,
                   deviations, alerts, result, exitCode, stdout, outBefore, prevDoc>>

\* faulty variant: the document is written straight after the deviations
ComputeDeviations_ThenPersist ==
    /\ pc = "compute"
    /\ stages' = Append(stages, "ComputeDeviations")
    /\ LET veg  == IF "ndvi_evi" \in DOMAIN datasets
                   THEN compute_deviations(datasets["ndvi_evi"]) ELSE <<>>
           clim == IF "climate" \in DOMAIN datasets
                   THEN compute_deviations(datasets["climate"]) ELSE <<>>
       IN  IF veg = RaisedFrame \/ clim = RaisedFrame
             THEN /\ result' = Exception
                  /\ pc' = "return"
                  /\ UNCHANGED deviations
           ELSE /\ deviations' = Concat(Concat(<<>>, veg, legacyConcat), clim, legacyConcat)
                /\ pc' = "persist"
                /\ UNCHANGED result
    /\ UNCHANGED <<reportVars, registerVars>>
    /\ UNCHANGED <<files, thresholds, legacyConcat, outfile, run, clock, datasets,
                   quality, alerts, exitCode, stdout, outBefore, prevDoc>>

\* faulty variant: deviations are computed from every loaded table
ComputeDeviations_EveryTable ==
    /\ pc = "compute"
    /\ stages' = Append(stages, "ComputeDeviations")
    /\ LET of(k) == IF k \in DOMAIN datasets
                     THEN compute_deviations(datasets[k]) ELSE <<>>
       IN  IF \E k \in Range(Categories) : of(k) = RaisedFrame
             THEN /\ result' = Exception
                  /\ pc' = "return"
                  /\ UNCHANGED deviations
           ELSE /\ deviations' =
                      Concat(Concat(Concat(Concat(<<>>, of("ndvi_evi"), legacyConcat),
                                           of("fire"), legacyConcat),
                                    of("water"), legacyConcat),
                             of("climate"), legacyConcat)
                /\ pc' = "classify"
                /\ UNCHANGED result
    /\ UNCHANGED <<reportVars, registerVars>>
    /\ UNCHANGED <<files, thresholds, legacyConcat, outfile, run, clock, datasets,
                   quality, alerts, exitCode, stdout, outBefore, prevDoc>>

\* lines 276-286: the deviations of the ndvi_evi and the climate table
\* (each concat is evaluated after its compute_deviations call)
ComputeDeviations ==
    /\ pc = "compute"
    /\ stages' = Append(stages, "ComputeDeviations")
    /\ LET veg  == IF "ndvi_evi" \in DOMAIN datasets
                   THEN compute_deviations(datasets["ndvi_evi"]) ELSE <<>>
           clim == IF "climate" \in DOMAIN datasets
                   THEN compute_deviations(datasets["climate"]) ELSE <<>>
       IN  IF veg = RaisedFrame \/ clim = RaisedFrame
             THEN /\ result' = Exception
                  /\ pc' = "return"
                  /\ UNCHANGED deviations
           ELSE /\ deviations' = Concat(Concat(<<>>, veg, legacyConcat), clim, legacyConcat)
                /\ pc' = "classify"
                /\ UNCHANGED result
    /\ UNCHANGED <<reportVars, registerVars>>
    /\ UNCHANGED <<files, thresholds, legacyConcat, outfile, run, clock, datasets,
                   quality, alerts, exitCode, stdout, outBefore, prevDoc>>

\* faulty variant: no alerts are raised from a run whose quality report
\* is not PASS
ClassifyAlerts_QualityGated ==
    /\ pc = "classify"
    /\ stages' = Append(stages, "ClassifyAlerts")
    /\ alerts' = IF quality.overall_status = "PASS"
                 THEN detect_alerts(datasets, deviations, thresholds) ELSE <<>>
    /\ pc' = "persist"
    /\ UNCHANGED <<reportVars, registerVars>>
    /\ UNCHANGED <<files, thresholds, legacyConcat, outfile, run, clock, datasets,
                   quality, deviations, result, exitCode, stdout, outBefore, prevDoc>>

\* line 288: detect_alerts
ClassifyAlerts ==
    /\ pc = "classify"
    /\ stages' = Append(stages, "ClassifyAlerts")
    /\ alerts' = detect_alerts(datasets, deviations, thresholds)
    /\ pc' = "persist"
    /\ UNCHANGED <<reportVars, registerVars>>
    /\ UNCHANGED <<files, thresholds, legacyConcat, outfile, run, clock, datasets,
                   quality, deviations, result, exitCode, stdout, outBefore, prevDoc>>

\* lines 290-314: the document is built (generated_at reads the clock),
\* written over the period's file and returned
Persist ==
    /\ pc = "persist"
    /\ stages' = Append(stages, "Persist")
    /\ LET output == Output(datasets, quality, deviations, alerts, clock)
       IN  /\ outfile' = Doc(output)
           /\ result' = Doc(output)
    /\ clock' = clock + 1
    /\ pc' = "return"
    /\ UNCHANGED <<reportVars, registerVars>>
    /\ UNCHANGED <<files, thresholds, legacyConcat, run, datasets, quality,
                   deviations, alerts, exitCode, stdout, outBefore, prevDoc>>

CountHigh(als) == Cardinality({i \in DOMAIN als : als[i].severity = "HIGH"})

\* lines 331-338: the entry point prints the summary or the failure line
\* and ends; no branch sets an exit status, so the process ends with 0
\* unless an exception escaped (traceback, status 1)
Main ==
    /\ pc = "return"
    /\ IF result = Exception
         THEN /\ stdout' = <<>>
              /\ exitCode' = 1
       ELSE IF result.kind = "doc"
         THEN /\ stdout' = <<"Processing complete", Len(result.doc.alerts),
                             CountHigh(result.doc.alerts)>>
              /\ exitCode' = 0
       ELSE /\ stdout' = <<"Processing failed - check logs">>
            /\ exitCode' = 0
    /\ pc' = "exited"
    /\ UNCHANGED <<reportVars, registerVars>>
    /\ UNCHANGED <<files, thresholds, legacyConcat, outfile, run, clock, datasets,
                   quality, deviations, alerts, result, stages, outBefore, prevDoc>>

\* a call update_shapefile_status(name, new_status, source, verified_date,
\* area_km2) in a session that has imported shapefile_manager
Update ==
    /\ pc = "registry"
    /\ updates < MaxUpdates
    /\ \E name \in UpdateNames, new_status \in UpdateStatuses, args \in UpdateArgs :
          LET new  == update_shapefile_status(register, name, new_status, args.source,
                                              args.verified_date, args.area_km2)
              call == [name |-> name, new_status |-> new_status, source |-> args.source,
                       verified_date |-> args.verified_date, area_km2 |-> args.area_km2]
          IN  IF new = Raised
                THEN /\ lastUpdate' = [kind |-> "ValueError", call |-> call]
                     /\ UNCHANGED register
              ELSE /\ register' = new
                   /\ lastUpdate' = [kind |-> "entry", call |-> call, entry |-> new[name]]
    /\ registerBefore' = register
    /\ updates' = updates + 1
    /\ UNCHANGED <<pipelineVars, run, reportVars>>

\* python report_generator.py --year Y --month M --mode mode: a process of
\* its own, run before or after a pipeline process.  generators[mode] is
\* looked up first (KeyError), the generator loads the period's document
\* (FileNotFoundError), and save_report writes sra_report_<mode>_<period>.txt
ReportMain ==
    /\ pc \in {"idle", "exited"}
    /\ run < MaxRuns
    /\ \E mode \in ModeChoices :
          IF mode \notin GeneratorKeys
            THEN /\ lastReport' = [mode |-> mode, kind |-> "KeyError"]
                 /\ UNCHANGED reports
          ELSE IF outfile.kind # "doc"
            THEN /\ lastReport' = [mode |-> mode, kind |-> "FileNotFoundError"]
                 /\ UNCHANGED reports
          ELSE LET content ==
                       CASE mode = "full" -> generate_full_report(outfile.doc)
                         [] mode = "donor" -> generate_donor_brief(outfile.doc)
                         [] mode = "alert" -> generate_alert_only(outfile.doc)
               IN  /\ reports' = [reports EXCEPT ![mode] = Doc(content)]
                   /\ lastReport' = [mode |-> mode, kind |-> "ok"]
    /\ run' = run + 1
    /\ UNCHANGED <<pipelineVars, registerVars>>

\* faulty variant: without a dataset an empty report is written
HtmlMain_EmptyReport ==
    /\ pc \in {"idle", "exited"}
    /\ run < MaxRuns
    /\ reports' = [reports EXCEPT !["html"] =
                      IF outfile.kind = "doc" THEN Doc(generate_html_report(outfile.doc))
                      ELSE Doc([period |-> "period"])]
    /\ lastReport' = [mode |-> "html", kind |-> "ok"]
    /\ run' = run + 1
    /\ UNCHANGED <<pipelineVars, registerVars>>

\* python html_report_generator.py --year Y --month M
HtmlMain ==
    /\ pc \in {"idle", "exited"}
    /\ run < MaxRuns
    /\ IF outfile.kind # "doc"
         THEN /\ lastReport' = [mode |-> "html", kind |-> "FileNotFoundError"]
              /\ UNCHANGED reports
       ELSE /\ reports' = [reports EXCEPT !["html"] = Doc(generate_html_report(outfile.doc))]
            /\ lastReport' = [mode |-> "html", kind |-> "ok"]
    /\ run' = run + 1
    /\ UNCHANGED <<pipelineVars, registerVars>>

Next ==
    \/ Start
    \/ Load
    \/ Validate
    \/ ComputeDeviations
    \/ ClassifyAlerts
    \/ Persist
    \/ Main
    \/ ReportMain
    \/ HtmlMain
    \/ Update

Spec == Init /\ [][Next]_vars

----------------------------------------------------------------------------
(* Properties *)

\* the alert list is the one detect_alerts returned for this run's
\* datasets and deviations
Classified == "ClassifyAlerts" \in Range(stages)

Finished == pc = "exited"

\* the deviation rows the NDVI/EVI rule applies to with a deviation at or
\* below the moderate threshold, and the NDVI/EVI alerts, both in order
VegEligible ==
    SelectSeq(deviations, LAMBDA d :
        /\ d.indicator \in (ContainsNDVI \cup ContainsEVI) \ ContainsStdDev
        /\ IsNum(d.deviation_pct)
        /\ d.deviation_pct <= thresholds.ndvi_evi_moderate)

VegAlerts == SelectSeq(alerts, LAMBDA a : a.indicator \in {"NDVI", "EVI"})

\* the severity an alert had before the escalation rule: the escalation
\* note records that it was MODERATE
BaseOf(a) == IF a.escalation # NoneStr THEN "MODERATE" ELSE a.severity

\* C1: no alert whose zone is "Ihefu Core" has severity MODERATE, whatever
\* rule family emitted it.
C1_NoModerateInIhefu ==
    \A i \in DOMAIN alerts :
        alerts[i].zone = "Ihefu Core" => alerts[i].severity # "MODERATE"

\* C2: an NDVI/EVI deviation in the moderate band (high < d <= moderate)
\* is emitted HIGH with an escalation note for "Ihefu Core" and MODERATE
\* with a null escalation for every other zone; a deviation at or below
\* the high threshold is emitted with a null escalation in every zone.
C2_EscalationOfModerate ==
    Classified =>
        /\ Len(VegAlerts) = Len(VegEligible)
        /\ \A j \in DOMAIN VegEligible :
             LET d == VegEligible[j]
                 a == VegAlerts[j]
             IN  /\ a.zone = d.zone
                 /\ IF d.deviation_pct <= thresholds.ndvi_evi_high
                      THEN a.severity = "HIGH" /\ a.escalation = NoneStr
                    ELSE IF d.zone = "Ihefu Core"
                      THEN a.severity = "HIGH" /\ a.escalation # NoneStr
                    ELSE a.severity = "MODERATE" /\ a.escalation = NoneStr

C2_Witness ==
    /\ Classified
    /\ \E i, j \in DOMAIN VegAlerts :
          /\ VegAlerts[i].zone = "Ihefu Core"
          /\ VegAlerts[i].escalation # NoneStr
          /\ VegAlerts[j].deviation_pct <= thresholds.ndvi_evi_high
          /\ VegAlerts[j].escalation = NoneStr

\* C3: in the compiled document every deviation record whose baseline
\* mean is 0 or NaN has deviation_pct null (None).
C3_NullDeviationInDocument ==
    (result # Unset /\ result.kind = "doc") =>
        \A i \in DOMAIN result.doc.deviations :
            LET d == result.doc.deviations[i]
            IN  d.baseline \in {0, NaN} => d.deviation_pct = None

\* a document without the fields in which two runs may differ
MaskTimes(d) ==
    [d EXCEPT !.metadata.generated_at = 0, !.data_quality.timestamp = 0]

MaskNote(c) ==
    IF "note" \in DOMAIN c /\ c.note[1] = "Missing zones"
    THEN [c EXCEPT !.note = <<"Missing zones", Range(c.note[2])>>]
    ELSE c

MaskNotes(d) ==
    [d EXCEPT !.data_quality.checks =
        [i \in DOMAIN d.data_quality.checks |-> MaskNote(d.data_quality.checks[i])]]

TwoDocuments ==
    /\ prevDoc.kind = "doc"
    /\ result # Unset
    /\ result.kind = "doc"

\* C4 (as stated): two runs for the period over unchanged input files give
\* documents equal in every field except metadata.generated_at.
C4_EqualExceptGeneratedAt ==
    TwoDocuments =>
        [prevDoc.doc EXCEPT !.metadata.generated_at = 0]
            = [result.doc EXCEPT !.metadata.generated_at = 0]

\* C4 (amended): the two documents are equal in every field except
\* metadata.generated_at, data_quality.timestamp and the order in which a
\* check's "Missing zones" note lists the zones.
C4_EqualExceptTimestamps ==
    TwoDocuments =>
        MaskNotes(MaskTimes(prevDoc.doc)) = MaskNotes(MaskTimes(result.doc))

C4_Witness ==
    /\ TwoDocuments
    /\ result.doc.alerts # <<>>
    /\ MaskTimes(prevDoc.doc) # MaskTimes(result.doc)

\* C5: for a deviation the NDVI/EVI rule applies to, with non-null
\* deviation d: an alert of base severity HIGH when d <= ndvi_evi_high,
\* of base severity MODERATE when ndvi_evi_high < d <= ndvi_evi_moderate,
\* and no NDVI/EVI alert when d > ndvi_evi_moderate, the thresholds being
\* those of the configuration.
C5_ThresholdClassification ==
    Classified =>
        /\ Len(VegAlerts) = Len(VegEligible)
        /\ \A j \in DOMAIN VegEligible :
             /\ VegAlerts[j].deviation_pct = VegEligible[j].deviation_pct
             /\ VegAlerts[j].indicator =
                  (IF VegEligible[j].indicator \in ContainsNDVI THEN "NDVI" ELSE "EVI")
             /\ BaseOf(VegAlerts[j]) =
                  (IF VegEligible[j].deviation_pct <= thresholds.ndvi_evi_high
                   THEN "HIGH" ELSE "MODERATE")

C5_Witness ==
    /\ Classified
    /\ thresholds = OtherThresholds
    /\ \E i, j \in DOMAIN VegAlerts :
          /\ VegAlerts[i].deviation_pct = thresholds.ndvi_evi_high
          /\ VegAlerts[i].severity = "HIGH"
          /\ VegAlerts[j].deviation_pct = thresholds.ndvi_evi_moderate
          /\ VegAlerts[j].severity = "MODERATE"

FireAlerts == SelectSeq(alerts, LAMBDA a : a.indicator = "Active Fire")

\* the rows of the loaded fire table that hold a positive value in a
\* "count" or "T21" column
FireRowsDetected ==
    IF datasets # Unset /\ "fire" \in DOMAIN datasets
    THEN SelectSeq(datasets["fire"].rows, LAMBDA r :
            \E c \in DOMAIN r.vals :
                /\ datasets["fire"].header[c] \in ContainsCount \cup ContainsT21
                /\ r.vals[c] # NaN /\ r.vals[c] > 0)
    ELSE <<>>

\* C6: each fire row with a positive value in a "count" or "T21" column
\* yields exactly one "Active Fire" alert, HIGH, for the row's zone, with
\* the detected value in its detail; other rows yield none.
C6_OneFireAlertPerRow ==
    Classified =>
        /\ Len(FireAlerts) = Len(FireRowsDetected)
        /\ \A j \in DOMAIN FireRowsDetected :
             /\ FireAlerts[j].zone = FireRowsDetected[j].zone
             /\ FireAlerts[j].severity = "HIGH"
             /\ \E c \in DOMAIN FireRowsDetected[j].vals :
                   FireAlerts[j].detail = <<"Fire detections", FireRowsDetected[j].vals[c]>>

LoadedNothing ==
    /\ "Load" \in Range(stages)
    /\ datasets = Unset \/ DOMAIN datasets = {}

\* C7: when no category loads, compile_monthly_dataset returns no
\* document, runs none of Validate, ComputeDeviations, ClassifyAlerts and
\* Persist, and leaves the period's output file as it was.
C7_FailFastAtLoad ==
    LoadedNothing =>
        /\ result \in {NoDoc, Exception}
        /\ (datasets # Unset => result = NoDoc)
        /\ stages = <<"Load">>
        /\ quality = Unset /\ deviations = <<>> /\ alerts = <<>>
        /\ outfile = outBefore

C7_Witness ==
    /\ Finished
    /\ datasets # Unset /\ DOMAIN datasets = {}
    /\ result = NoDoc
    /\ outfile = Doc(StaleDoc)

LoadedSome == datasets # Unset /\ DOMAIN datasets # {}

\* C8: when at least one category loads, the run passes through Validate,
\* ComputeDeviations and ClassifyAlerts without raising, whatever the
\* tables hold, and ends with a persisted, returned document.
C8_NeverRaisesAfterLoad ==
    LoadedSome =>
        /\ result # Exception
        /\ (Finished => result.kind = "doc" /\ outfile = result)

ValidFiles == {k \in Range(Categories) :
                  files[k].present /\ required_cols \subseteq files[k].columns}

BrokenFiles == {k \in Range(Categories) :
                   files[k].present /\ ~(required_cols \subseteq files[k].columns)}

\* C9: a file that lacks a required column fails only its own load: with
\* at least one valid category file the run loads the valid categories
\* and succeeds.
C9_SchemaErrorIsPerTable ==
    (Finished /\ BrokenFiles # {} /\ ValidFiles # {}) =>
        /\ result.kind = "doc"
        /\ DOMAIN result.doc.raw_datasets = ValidFiles

\* C10: the entry point exits non-zero when no category was loaded, and
\* prints the alert-count summary only on success.
C10_ExitStatus ==
    Finished =>
        /\ (result = NoDoc => exitCode # 0)
        /\ (stdout # <<>> /\ stdout[1] = "Processing complete" => result.kind = "doc")

HasDoc == result # Unset /\ result.kind = "doc"

\* C11 (as stated): in the alerts list of the persisted document every
\* HIGH alert precedes every alert that is not HIGH.
C11_HighFirstInDocument ==
    HasDoc =>
        \A i, j \in DOMAIN result.doc.alerts :
            (result.doc.alerts[i].severity # "HIGH"
             /\ result.doc.alerts[j].severity = "HIGH") => j < i

\* the rule family that emitted an alert, in the order of detect_alerts
FamilyRank(a) ==
    IF a.indicator \in {"NDVI", "EVI"} THEN 1
    ELSE IF a.indicator = "Active Fire" THEN 2
    ELSE 3

\* C11 (amended): the persisted document's alerts list is the detection
\* order of detect_alerts - the NDVI/EVI alerts, then the Active Fire
\* alerts, then the rainfall and land-surface-temperature alerts - and is
\* not ordered by severity.
C11_DetectionOrderInDocument ==
    HasDoc =>
        /\ outfile = result
        /\ result.doc.alerts = alerts
        /\ \A i, j \in DOMAIN result.doc.alerts :
              i < j => FamilyRank(result.doc.alerts[i]) <= FamilyRank(result.doc.alerts[j])

C11_Witness ==
    /\ HasDoc
    /\ outfile = result
    /\ {FamilyRank(result.doc.alerts[i]) : i \in DOMAIN result.doc.alerts} = {1, 2, 3}
    /\ \E i, j \in DOMAIN result.doc.alerts :
          /\ i < j
          /\ result.doc.alerts[i].severity = "MODERATE"
          /\ result.doc.alerts[j].severity = "HIGH"

Validated == quality # Unset

\* empty cells of a table, counted on the rows as loaded
EmptyCells(df) ==
    Cardinality({<<r, i>> \in (DOMAIN df.rows) \X (1..Len(df.header)) :
                    df.rows[r].vals[i] = NaN})
    + Cardinality({r \in DOMAIN df.rows : df.rows[r].zone = NA})
    + Cardinality({r \in DOMAIN df.rows : df.rows[r].indicator = NA})

AllCells(df) == Len(df.rows) * (4 + Len(df.header))

ZoneAbsent(df) ==
    \E z \in {"Usangu GR", "Ihefu Core", "Nyerere NP"} :
        \A r \in DOMAIN df.rows : df.rows[r].zone # z

\* C12: there is exactly one check per loaded category; a check is WARNING
\* exactly when its null percentage (the empty cells over all cells, to one
\* decimal) exceeds 30 or one of the three expected zones is absent from
\* the table, and PASS otherwise; overall_status is WARNING exactly when
\* some check is WARNING.
C12_QualityStatusRule ==
    Validated =>
        LET keys == Keys(datasets)
            checks == quality.checks
        IN  /\ Len(checks) = Len(keys)
            /\ \A i \in DOMAIN checks :
                  LET df == datasets[keys[i]]
                      c  == checks[i]
                  IN  /\ c.dataset = keys[i]
                      /\ c.status \in {"PASS", "WARNING"}
                      /\ Len(df.rows) > 0 =>
                            /\ c.null_pct # NaN
                            /\ 2 * Abs(c.null_pct * AllCells(df) - 1000 * EmptyCells(df))
                                  <= AllCells(df)
                      /\ c.status = "WARNING"
                            <=> \/ c.null_pct # NaN /\ c.null_pct > 300
                                \/ ZoneAbsent(df)
            /\ quality.overall_status = "WARNING"
                  <=> \E i \in DOMAIN checks : checks[i].status = "WARNING"
            /\ quality.overall_status \in {"PASS", "WARNING"}

C12_Witness ==
    /\ Validated
    /\ Len(quality.checks) = 2
    /\ quality.overall_status = "WARNING"
    /\ \E i, j \in DOMAIN quality.checks :
          /\ quality.checks[i].status = "PASS"
          /\ quality.checks[j].status = "WARNING"
          /\ ~ZoneAbsent(datasets[quality.checks[j].dataset])

\* C13: a table with all expected zones whose null percentage is exactly
\* 30.0 is PASS and carries no note; one whose null percentage is 30.1 is
\* WARNING with the high-null-rate note (the comparison is strictly > 30).
C13_NullBoundary ==
    Validated =>
        \A i \in DOMAIN quality.checks :
            LET c  == quality.checks[i]
                df == datasets[c.dataset]
            IN  /\ (Len(df.rows) > 0 /\ 10 * EmptyCells(df) = 3 * AllCells(df))
                      => c.null_pct = 300
                /\ (c.null_pct = 300 /\ ~ZoneAbsent(df))
                      => c.status = "PASS" /\ "note" \notin DOMAIN c
                /\ (c.null_pct = 301 /\ ~ZoneAbsent(df))
                      => /\ c.status = "WARNING"
                         /\ "note" \in DOMAIN c
                         /\ c.note = <<"High null rate", 301>>

C13_Witness ==
    /\ Validated
    /\ \E i, j \in DOMAIN quality.checks :
          LET a == quality.checks[i]
              b == quality.checks[j]
          IN  /\ ~ZoneAbsent(datasets[a.dataset])
              /\ 10 * EmptyCells(datasets[a.dataset]) = 3 * AllCells(datasets[a.dataset])
              /\ a.null_pct = 300 /\ a.status = "PASS"
              /\ ~ZoneAbsent(datasets[b.dataset])
              /\ b.null_pct = 301 /\ b.status = "WARNING"

\* C14: every check whose null percentage exceeds 30 carries the note on
\* the elevated null rate, and every check with a missing expected zone
\* carries the note listing the missing zones, also when both apply.
C14_BothNotes ==
    Validated =>
        \A i \in DOMAIN quality.checks :
            LET c  == quality.checks[i]
                df == datasets[c.dataset]
            IN  /\ (c.null_pct # NaN /\ c.null_pct > 300)
                      => /\ "note" \in DOMAIN c
                         /\ c.note[1] = "High null rate"
                /\ ZoneAbsent(df)
                      => /\ "note" \in DOMAIN c
                         /\ c.note[1] = "Missing zones"

RainfallNames == {"Rainfall_mm", "rainfall_chirps", "rainfall_NDVI_LST"}
LstNames == {"LST_mean", "rainfall_NDVI_LST"}

\* the rainfall deviations at or below -40%, and the rainfall alerts, both
\* in order and reduced to zone and deviation
RainfallDeficits ==
    LET hit == SelectSeq(deviations, LAMBDA d :
                   /\ d.indicator \in RainfallNames
                   /\ IsNum(d.deviation_pct)
                   /\ d.deviation_pct <= -400)
    IN  [i \in DOMAIN hit |-> <<hit[i].zone, hit[i].deviation_pct>>]

RainfallAlertsFound ==
    LET found == SelectSeq(alerts, LAMBDA a : a.indicator = "Rainfall Deficit")
    IN  [i \in DOMAIN found |-> <<found[i].zone, found[i].deviation_pct>>]

\* C15: the Rainfall Deficit alerts are, one for one and in order, the
\* rainfall deviations (name containing "rainfall" in any case) whose
\* deviation_pct is a number <= -40; each is HIGH, carries the zone and
\* the deviation, and its detail names the 40% deficit.  A rainfall
\* deviation above -40 or without a deviation_pct has no alert.
C15_RainfallRule ==
    Classified =>
        /\ RainfallAlertsFound = RainfallDeficits
        /\ \A i \in DOMAIN alerts :
              alerts[i].indicator = "Rainfall Deficit"
              => /\ alerts[i].severity = "HIGH"
                 /\ alerts[i].detail = "Drought watch - >40% deficit vs 30-yr mean"

C15_Witness ==
    /\ Classified
    /\ \E i \in DOMAIN deviations :
          /\ deviations[i].indicator \in RainfallNames
          /\ deviations[i].deviation_pct = -400
          /\ RainfallAlertsFound = << <<deviations[i].zone, -400>> >>

\* the LST deviations with current - baseline > 3.0 (units of 1e-4), and
\* the LST alerts, both in order and reduced to the zone
LstAnomalies ==
    LET hit == SelectSeq(deviations, LAMBDA d :
                   /\ d.indicator \in LstNames
                   /\ IsNum(d.current) /\ IsNum(d.baseline)
                   /\ d.current - d.baseline > 30000)
    IN  [i \in DOMAIN hit |-> hit[i].zone]

LstAlertsFound ==
    LET found == SelectSeq(alerts, LAMBDA a : a.indicator = "Land Surface Temperature")
    IN  [i \in DOMAIN found |-> found[i].zone]

\* C16: the Land Surface Temperature alerts are, one for one and in order,
\* the LST deviations whose current - baseline is strictly greater than
\* 3.0; an anomaly of exactly 3.0 has no alert; the rule gives the alert
\* severity MODERATE.
C16_LstRule ==
    Classified =>
        /\ LstAlertsFound = LstAnomalies
        /\ \A i \in DOMAIN alerts :
              alerts[i].indicator = "Land Surface Temperature"
              => alerts[i].severity = "MODERATE"

C16_Witness ==
    /\ Classified
    /\ \E j \in DOMAIN deviations :
          /\ deviations[j].indicator \in LstNames
          /\ IsNum(deviations[j].current) /\ IsNum(deviations[j].baseline)
          /\ deviations[j].current - deviations[j].baseline = 40000
          /\ LstAlertsFound = <<deviations[j].zone>>

StageOrder == <<"Load", "Validate", "ComputeDeviations", "ClassifyAlerts", "Persist">>

\* C17: the stages a run has passed are an initial part of Load, Validate,
\* ComputeDeviations, ClassifyAlerts, Persist (each at most once, none
\* revisited); once Persist has happened the document holds the
\* deviations of this run and the alerts classified from them, and the
\* period's file is written by no other stage.
C17_StageOrder ==
    /\ Len(stages) <= Len(StageOrder)
    /\ stages = SubSeq(StageOrder, 1, Len(stages))
    /\ "Persist" \in Range(stages) =>
          /\ HasDoc
          /\ outfile = result
          /\ result.doc.deviations = deviations
          /\ result.doc.alerts = detect_alerts(datasets, deviations, thresholds)
          /\ result.doc.data_quality = quality
    /\ (stages # <<>> /\ "Persist" \notin Range(stages)) => outfile = outBefore

C17_Witness ==
    /\ run = 2
    /\ stages = StageOrder
    /\ result.doc.alerts # <<>>
    /\ result.doc.deviations # <<>>

FilesOnDisk == {k \in {"ndvi_evi", "fire", "water", "climate"} : files[k].present}

Loaded == "Load" \in Range(stages) /\ datasets # Unset

\* C18: a missing category file does not fail the load: whenever
\* load_monthly_exports returns, the keys of its mapping are exactly the
\* categories whose file is on disk, and a compiled document's
\* raw_datasets has exactly those keys.
C18_MissingFileNotFatal ==
    /\ ("Load" \in Range(stages)
         /\ \A k \in FilesOnDisk : {"zone", "indicator", "year", "month"} \subseteq files[k].columns)
        => Loaded
    /\ Loaded => DOMAIN datasets = FilesOnDisk
    /\ HasDoc => DOMAIN result.doc.raw_datasets = FilesOnDisk

C18_Witness ==
    /\ HasDoc
    /\ outfile = result
    /\ DOMAIN result.doc.raw_datasets = {"fire", "climate"}
    /\ FilesOnDisk = {"fire", "climate"}

Computed == "ComputeDeviations" \in Range(stages)

HasCurrentAndBaseline(df, z) ==
    /\ \E r \in DOMAIN df.rows :
          df.rows[r].zone = z
          /\ df.rows[r].indicator \in {"NDVI_current", "climate_current", "water_current"}
    /\ \E r \in DOMAIN df.rows :
          df.rows[r].zone = z
          /\ df.rows[r].indicator \in {"NDVI_baseline", "climate_baseline"}

RecordsOf(z, col) ==
    {i \in DOMAIN deviations : deviations[i].zone = z /\ deviations[i].indicator = col}

\* C19: compute_deviations raises no error; it emits no record for a zone
\* without current-labelled rows or without baseline-labelled rows, and
\* exactly one record per measurement column for a zone that has both.
C19_RecordsPerZone ==
    Computed =>
        /\ result # Exception
        /\ \A k \in {"ndvi_evi", "climate"} \cap DOMAIN datasets :
              \A z \in {"Usangu GR", "Ihefu Core", "Nyerere NP"} :
                 \A c \in DOMAIN datasets[k].header :
                    Cardinality(RecordsOf(z, datasets[k].header[c]))
                      = IF HasCurrentAndBaseline(datasets[k], z) THEN 1 ELSE 0

\* the mean of column c over the rows of zone z whose indicator is one of
\* the given labels
ZoneMean(df, z, labels, c) ==
    ColMean(SelectSeq(df.rows, LAMBDA r : r.zone = z /\ r.indicator \in labels), c)

\* C20: for every deviation record whose baseline mean is neither 0 nor
\* NaN (and whose current mean is a number), deviation_pct is
\* (current - baseline) / |baseline| * 100 of the two means, to one
\* decimal, so it has the sign of current - baseline also for a negative
\* baseline; means 0.42 and 0.60 under thresholds -25 / -15 give -30.0
\* and a HIGH NDVI alert.
C20_DeviationFormula ==
    Classified =>
        \A k \in {"ndvi_evi", "climate"} \cap DOMAIN datasets :
        \A c \in DOMAIN datasets[k].header :
        \A i \in DOMAIN deviations :
            LET d    == deviations[i]
                cur  == ZoneMean(datasets[k], d.zone,
                                 {"NDVI_current", "climate_current"}, c)
                base == ZoneMean(datasets[k], d.zone,
                                 {"NDVI_baseline", "climate_baseline"}, c)
                diff == cur.s * base.n - base.s * cur.n
                den  == cur.n * Abs(base.s)
            IN  (d.indicator = datasets[k].header[c]
                 /\ base.n # 0 /\ base.s # 0 /\ cur.n # 0)
                => /\ IsNum(d.deviation_pct)
                   /\ 2 * Abs(d.deviation_pct * den - 1000 * diff) <= den
                   /\ diff > 0 => d.deviation_pct >= 0
                   /\ diff < 0 => d.deviation_pct <= 0
                   /\ (cur.s * 60 = 42 * cur.n /\ base.s = 60 * base.n
                       /\ d.indicator = "NDVI_mean" /\ thresholds = DefaultThresholds)
                      => /\ d.deviation_pct = -300
                         /\ \E a \in DOMAIN alerts :
                               /\ alerts[a].zone = d.zone
                               /\ alerts[a].indicator = "NDVI"
                               /\ alerts[a].severity = "HIGH"
                               /\ alerts[a].deviation_pct = -300

C20_Witness ==
    /\ Classified
    /\ thresholds = DefaultThresholds
    /\ DOMAIN datasets = {"ndvi_evi"}
    /\ datasets["ndvi_evi"].rows =
          << [zone |-> "Usangu GR", indicator |-> "NDVI_current", vals |-> <<42>>],
             [zone |-> "Usangu GR", indicator |-> "NDVI_baseline", vals |-> <<60>>] >>
    /\ Len(deviations) = 1
    /\ deviations[1].deviation_pct = -300
    /\ Len(alerts) = 1
    /\ alerts[1].severity = "HIGH" /\ alerts[1].indicator = "NDVI"
    /\ alerts[1].zone = "Usangu GR"

\* the deviation records that meet the condition of the NDVI/EVI family
\* (a name holding "NDVI" or "EVI", not "stdDev"; deviation at or below
\* the moderate threshold)
VegHits ==
    {i \in DOMAIN deviations :
        /\ deviations[i].indicator \in
              {"NDVI", "NDVI_mean", "EVI_mean", "NDVI_EVI_mean", "rainfall_NDVI_LST"}
        /\ IsNum(deviations[i].deviation_pct)
        /\ deviations[i].deviation_pct <= thresholds.ndvi_evi_moderate}

RainfallHits ==
    {i \in DOMAIN deviations :
        /\ deviations[i].indicator \in RainfallNames
        /\ IsNum(deviations[i].deviation_pct)
        /\ deviations[i].deviation_pct <= -400}

LstHits ==
    {i \in DOMAIN deviations :
        /\ deviations[i].indicator \in LstNames
        /\ IsNum(deviations[i].current) /\ IsNum(deviations[i].baseline)
        /\ deviations[i].current - deviations[i].baseline > 30000}

AlertsOf(labels) == {i \in DOMAIN alerts : alerts[i].indicator \in labels}

\* C21: each rule family emits exactly one alert for each deviation record
\* that meets its condition and none for any other record - one alert, not
\* two, for a name holding both "NDVI" and "EVI" - and a record that meets
\* the conditions of several families has one alert from each of them.
C21_OneAlertPerFamily ==
    Classified =>
        /\ Cardinality(AlertsOf({"NDVI", "EVI"})) = Cardinality(VegHits)
        /\ Cardinality(AlertsOf({"Rainfall Deficit"})) = Cardinality(RainfallHits)
        /\ Cardinality(AlertsOf({"Land Surface Temperature"})) = Cardinality(LstHits)
        /\ \A i \in VegHits :
              Cardinality({a \in AlertsOf({"NDVI", "EVI"}) :
                              /\ alerts[a].zone = deviations[i].zone
                              /\ alerts[a].deviation_pct = deviations[i].deviation_pct
                              /\ alerts[a].current = deviations[i].current
                              /\ alerts[a].baseline = deviations[i].baseline})
                = Cardinality({j \in VegHits :
                              /\ deviations[j].zone = deviations[i].zone
                              /\ deviations[j].deviation_pct = deviations[i].deviation_pct
                              /\ deviations[j].current = deviations[i].current
                              /\ deviations[j].baseline = deviations[i].baseline})

C21_Witness ==
    /\ Classified
    /\ \E i, j \in DOMAIN deviations :
          /\ deviations[i].indicator = "NDVI_EVI_mean"
          /\ i \in VegHits
          /\ deviations[j].indicator = "rainfall_NDVI_LST"
          /\ j \in VegHits \cap RainfallHits
    /\ Cardinality(AlertsOf({"NDVI"})) = 2
    /\ Cardinality(AlertsOf({"EVI"})) = 0
    /\ Cardinality(AlertsOf({"Rainfall Deficit"})) = 1

\* the last command was a report command that wrote its report; the
\* period's document is then still the one the report was made from
Rendered == lastReport # Unset /\ lastReport.kind = "ok"

Listing(rows) ==
    [i \in DOMAIN rows |->
        [zone |-> rows[i].zone, indicator |-> rows[i].indicator,
         severity |-> rows[i].severity]]

\* the alert listings of the report just written, each top to bottom
RenderedLists ==
    LET r == reports[lastReport.mode].doc
    IN  IF lastReport.mode \in {"full", "alert"} THEN {Listing(r.alert_table)}
        ELSE IF lastReport.mode = "html"
          THEN {Listing(r.alert_rows),
                LET bars == TopToBottom(r.alert_chart)
                IN  [i \in DOMAIN bars |->
                        [zone |-> bars[i].label[2], indicator |-> bars[i].label[1],
                         severity |-> bars[i].text]]}
        ELSE {}

\* C22: in the text alert table, the HTML alert chart and the HTML alert
\* table every HIGH alert is listed before every alert that is not HIGH,
\* and the alerts of each of the two classes are listed in the order they
\* have in the document.
C22_RenderedHighFirst ==
    Rendered =>
        \A L \in RenderedLists :
            /\ Len(L) = Len(outfile.doc.alerts)
            /\ \A i, j \in DOMAIN L :
                  (L[i].severity = "HIGH" /\ L[j].severity # "HIGH") => i < j
            /\ SelectSeq(L, LAMBDA a : a.severity = "HIGH")
                  = Listing(SelectSeq(outfile.doc.alerts, LAMBDA a : a.severity = "HIGH"))
            /\ SelectSeq(L, LAMBDA a : a.severity # "HIGH")
                  = Listing(SelectSeq(outfile.doc.alerts, LAMBDA a : a.severity # "HIGH"))

C22_Witness ==
    /\ Rendered
    /\ lastReport.mode = "html"
    /\ Len(outfile.doc.alerts) = 4
    /\ outfile.doc.alerts[1].severity = "MODERATE"
    /\ outfile.doc.alerts[2].severity = "HIGH"
    /\ outfile.doc.alerts[3].severity = "HIGH"
    /\ outfile.doc.alerts[2].indicator # outfile.doc.alerts[3].indicator
    /\ outfile.doc.alerts[4].severity = "MODERATE"
    /\ outfile.doc.alerts[1].indicator # outfile.doc.alerts[4].indicator
    /\ Cardinality(RenderedLists) = 1

ReportKinds == {"full", "donor", "alert", "html"}

\* C24: a report file of the period (full, donor, alert-only or HTML)
\* exists only if the period's document has been persisted; a report
\* command run while there is no document ends with FileNotFoundError
\* and no report file has been written.
C24_ReportNeedsDocument ==
    /\ \A f \in ReportKinds : reports[f].kind = "doc" => outfile.kind = "doc"
    /\ Rendered => outfile.kind = "doc"
    /\ (lastReport # Unset /\ lastReport.mode \in ReportKinds /\ outfile.kind # "doc")
          => /\ lastReport.kind = "FileNotFoundError"
             /\ \A f \in ReportKinds : reports[f] = NoDoc

C24_Witness ==
    /\ lastReport # Unset
    /\ lastReport.mode = "full"
    /\ lastReport.kind = "FileNotFoundError"
    /\ "Load" \in Range(stages)
    /\ pc = "exited"
    /\ outfile = NoDoc
    /\ reports = NoReports

\* C25: for every mode the command line of the text report accepts, a
\* report command run on a persisted document selects a generator,
\* produces the report and saves it under the mode's filename.
C25_EveryModeSupported ==
    (lastReport # Unset /\ lastReport.mode \in {"full", "donor", "alert", "government"}
     /\ outfile.kind = "doc")
    => /\ lastReport.kind = "ok"
       /\ reports[lastReport.mode].kind = "doc"

Updated == lastUpdate # Unset

SixNames ==
    {"usangu_game_reserve", "ihefu_swamp_core", "nyerere_np_boundary",
     "great_ruaha_river", "rufiji_river", "six_rivers_study_zones"}

\* C26: update_shapefile_status called with a name that is not in the
\* register raises ValueError and leaves every entry of the register as
\* it was.
C26_UnknownNameRejected ==
    Updated =>
        /\ lastUpdate.call.name \notin SixNames
              => /\ lastUpdate.kind = "ValueError"
                 /\ register = registerBefore
        /\ lastUpdate.kind = "ValueError" => lastUpdate.call.name \notin SixNames

C26_Witness ==
    /\ Updated
    /\ updates = 2
    /\ lastUpdate.kind = "ValueError"
    /\ lastUpdate.call.new_status = "AUTHORITATIVE"
    /\ lastUpdate.call.source # NoneStr
    /\ register = registerBefore
    /\ register \notin {SHAPEFILE_REGISTER, FiveVerified}

RECURSIVE SumOver(_, _)
SumOver(f, S) ==
    IF S = {} THEN 0
    ELSE LET x == CHOOSE y \in S : TRUE
         IN  f[x] + SumOver(f, S \ {x})

\* C27: the register always holds exactly its six original names; a
\* successful update leaves every other entry as it was, sets the named
\* entry's status, changes its source, date_verified and
\* area_km2_verified only when that argument was supplied and changes no
\* other field; get_register_status reports total_shapefiles = 6 and
\* status_counts that add up to 6.
C27_RegisterFrame ==
    /\ DOMAIN register = SixNames
    /\ LET st == get_register_status(register)
       IN  /\ st.total_shapefiles = 6
           /\ SumOver(st.status_counts, DOMAIN st.status_counts) = 6
    /\ (Updated /\ lastUpdate.kind = "entry") =>
          LET c == lastUpdate.call
              new == register[c.name]
              old == registerBefore[c.name]
          IN  /\ \A n \in SixNames \ {c.name} : register[n] = registerBefore[n]
              /\ lastUpdate.entry = new
              /\ new.status = c.new_status
              /\ new.filename = old.filename
              /\ new.source # old.source
                    => c.source # NoneStr /\ new.source = c.source
              /\ new.date_verified # old.date_verified
                    => c.verified_date # NoneStr /\ new.date_verified = c.verified_date
              /\ new.area_km2_verified # old.area_km2_verified
                    => c.area_km2 # None /\ new.area_km2_verified = c.area_km2

C27_Witness ==
    /\ Updated
    /\ updates = 2
    /\ lastUpdate.kind = "entry"
    /\ lastUpdate.call.name = "six_rivers_study_zones"
    /\ lastUpdate.call.source = NoneStr
    /\ register["six_rivers_study_zones"].source = SHAPEFILE_REGISTER["six_rivers_study_zones"].source
    /\ register["six_rivers_study_zones"].status = "AUTHORITATIVE"
    /\ register["usangu_game_reserve"].area_km2_verified = 2610
    /\ register["usangu_game_reserve"].date_verified = "2026-03-01"
    /\ register["usangu_game_reserve"].status = "VERIFIED"

\* C28: get_register_status is self-consistent after any sequence of
\* updates: every entry is verified (status AUTHORITATIVE) or listed in
\* pending_sra_input, so all_verified holds exactly when
\* pending_sra_input is empty.
C28_StatusSelfConsistent ==
    LET st == get_register_status(register)
    IN  /\ \A n \in DOMAIN register :
              \/ register[n].status = "AUTHORITATIVE"
              \/ n \in Range(st.pending_sra_input)
        /\ st.all_verified <=> (st.pending_sra_input = <<>>)

\* the NDVI alerts of a document that stem from one of its own deviations
NdviAlertsOf(doc) ==
    {i \in DOMAIN doc.alerts :
        /\ doc.alerts[i].indicator = "NDVI"
        /\ doc.alerts[i].severity \in {"HIGH", "MODERATE"}
        /\ \E j \in DOMAIN doc.deviations :
              /\ doc.deviations[j].zone = doc.alerts[i].zone
              /\ doc.deviations[j].deviation_pct = doc.alerts[i].deviation_pct}

\* C29: the executive summary of a text report agrees with the alert
\* classification: when the persisted document holds an NDVI alert (HIGH
\* or MODERATE) produced from one of its deviations, the summary calls the
\* landscape "showing vegetation stress" and not "stable".
C29_SummaryAgreesWithAlerts ==
    (Rendered /\ lastReport.mode \in {"full", "donor"} /\ outfile.kind = "doc") =>
        (NdviAlertsOf(outfile.doc) # {}
            => reports[lastReport.mode].doc.summary.landscape_status
                  = "showing vegetation stress")

\* the value columns of the loaded tables named in ks
ColumnsOf(ks) ==
    UNION {Range(datasets[k].header) : k \in ks \cap DOMAIN datasets}

\* C30: deviations are computed only from the ndvi_evi and the climate
\* table: no deviation record stems from the water or the fire table, every
\* alert is an "Active Fire" alert of a fire row or stems from a deviation
\* record, and the water and the fire table are all the same loaded,
\* quality-checked and copied into raw_datasets.
C30_WaterAndFireExcluded ==
    /\ Computed =>
          \A i \in DOMAIN deviations :
              deviations[i].indicator \in ColumnsOf({"ndvi_evi", "climate"})
    /\ Classified =>
          \A i \in DOMAIN alerts :
              IF alerts[i].indicator = "Active Fire"
              THEN /\ "fire" \in DOMAIN datasets
                   /\ \E r \in DOMAIN datasets["fire"].rows :
                         datasets["fire"].rows[r].zone = alerts[i].zone
              ELSE \E j \in DOMAIN deviations :
                      /\ deviations[j].zone = alerts[i].zone
                      /\ deviations[j].indicator \in ColumnsOf({"ndvi_evi", "climate"})
    /\ HasDoc =>
          \A k \in {"water", "fire"} \cap FilesOnDisk :
              /\ k \in DOMAIN result.doc.raw_datasets
              /\ result.doc.raw_datasets[k] = datasets[k]
              /\ datasets[k].rows = files[k].rows
              /\ \E c \in DOMAIN result.doc.data_quality.checks :
                    /\ result.doc.data_quality.checks[c].dataset = k
                    /\ result.doc.data_quality.checks[c].records = Len(files[k].rows)

C30_Witness ==
    /\ HasDoc
    /\ files["water"] = PairedTable["water"]
    /\ files["fire"] = PairedTable["fire"]
    /\ files["ndvi_evi"] = PairedTable["ndvi_evi"]
    /\ Len(result.doc.deviations) = 2
    /\ Len(result.doc.alerts) = 3
    /\ \E i \in DOMAIN result.doc.alerts : result.doc.alerts[i].indicator = "Active Fire"
    /\ \E i \in DOMAIN result.doc.alerts : result.doc.alerts[i].indicator = "NDVI"
    /\ DOMAIN result.doc.raw_datasets = {"ndvi_evi", "water", "fire"}

====
